---- MODULE Spec2Model ----
(***************************************************************************)
(* A model of graphql_schema_parse/src.py: the type-reference resolver,    *)
(* the default-variables synthesizer (get_variables), the field selector   *)
(* (find_fields), the query synthesizer (get_query_str / query_template),  *)
(* the root enumeration (load_query) and the emission pipeline             *)
(* (make_action, MakeFile.__init__, async_write, make_file).               *)
(*                                                                         *)
(* Strings.  A type-reference string such as "[User!]!" is modelled as the *)
(* sequence of its lexemes <<"[", "User", "!", "]", "!">>.  A GraphQL name *)
(* contains neither bracket nor bang, so str.find("["), str.find("]") and  *)
(* str.endswith("!") see the same positions at lexeme level as at          *)
(* character level for every string str(GraphQLType) can produce.  A       *)
(* document is the sequence of the non-blank pieces the template renders.  *)
(*                                                                         *)
(* Values.  A JSON value is a record [kind, lit, items]: a scalar carries  *)
(* its JSON literal in lit, a list its elements in items, a dict its       *)
(* ordered <<key, value>> entries in items (Python dicts keep insertion    *)
(* order).                                                                 *)
(***************************************************************************)
EXTENDS Integers, Sequences, FiniteSets, TLC

VARIABLES
    schemas,      \* GraphqlDocsParse.schemas: the loaded schema, or NoSchema
    source,       \* the schema the source (URL / file) yields when it is read
    path_kind,    \* what make_action's path is: "url", "json", "graphql", "other"
    to_type,      \* make_action's to_type
    depth,        \* make_action's depth
    is_sqlmap,    \* the is_sqlmap flag start() is called with
    dir,          \* the output directory: "absent", "present", "created"
    pc,           \* make_action's position
    load_pos,     \* load_query: number of root fields enumerated so far
    json_queue,   \* GraphqlDocsParse.json_queue
    tasks,        \* the futures of async_write's executor, in submission order
    files,        \* the files of the output directory: a set of [path, content]
    qsize,        \* async_write's qsize
    total,        \* async_write's total
    err,          \* the exception make_action raised, "" when none
    phase,        \* for the pure-function specifications: "idle", "called", "returned"
    call,         \* the arguments of the function under check
    result        \* what it returned

vars == <<schemas, source, path_kind, to_type, depth, is_sqlmap, dir, pc, load_pos,
          json_queue, tasks, files, qsize, total, err, phase, call, result>>

pipeline_vars == <<schemas, source, path_kind, to_type, depth, is_sqlmap, dir, pc,
                   load_pos, json_queue, tasks, files, qsize, total, err>>

(***************************************************************************)
(* Bounds of the model.                                                    *)
(***************************************************************************)
MaxListDepth == 2    \* list wrappers in a generated type reference
MaxArgs == 3         \* arguments of a generated argument mapping
MaxFields == 2       \* fields of a generated object type
MaxDepth == 2        \* depth budgets 0..MaxDepth for find_fields
MaxRootFields == 2   \* fields of the generated Query root type

(***************************************************************************)
(* Python string primitives, on lexeme sequences.                          *)
(***************************************************************************)
Min(a, b) == IF a < b THEN a ELSE b
Max(a, b) == IF a > b THEN a ELSE b

\* str.find(c): the 0-based position of the first c, -1 when there is none.
Find(s, c) ==
    IF \E i \in 1..Len(s) : s[i] = c
    THEN (CHOOSE i \in 1..Len(s) : s[i] = c /\ \A j \in 1..(i - 1) : s[j] # c) - 1
    ELSE -1

\* s[lo:hi] with Python's treatment of negative and out-of-range indices.
PyIndex(s, i) == IF i < 0 THEN Max(i + Len(s), 0) ELSE Min(i, Len(s))
PySlice(s, lo, hi) == SubSeq(s, PyIndex(s, lo) + 1, PyIndex(s, hi))

\* str.endswith("!")
EndsWithBang(s) == Len(s) > 0 /\ s[Len(s)] = "!"

(***************************************************************************)
(* The type-reference resolver, once per copy in the source.               *)
(***************************************************************************)
\* A faulty resolver: the trailing "!" is dropped before the brackets are cut.
ReturnObjNameBangFirst(type_str) ==
    LET bare  == IF EndsWithBang(type_str) THEN PySlice(type_str, 0, -1) ELSE type_str
        start == Find(bare, "[")
    IN  IF start # -1 THEN PySlice(bare, start + 1, Find(bare, "]")) ELSE bare

\* get_return_obj, lines 108-115: the name looked up in type_map.
ReturnObjName(type_str) ==
    LET start == Find(type_str, "[")
        inner == IF start # -1
                 THEN PySlice(type_str, start + 1, Find(type_str, "]"))
                 ELSE type_str
    IN  IF EndsWithBang(inner) THEN PySlice(inner, 0, -1) ELSE inner

\* get_variables, lines 136-147: v_type and flag.
VarsTypeName(type_str) ==
    LET start == Find(type_str, "[")
        flag  == start # -1
        inner == IF flag
                 THEN PySlice(type_str, start + 1, Find(type_str, "]"))
                 ELSE type_str
    IN  [v_type |-> IF EndsWithBang(inner) THEN PySlice(inner, 0, -1) ELSE inner,
         flag   |-> flag]

(***************************************************************************)
(* Type references as str(GraphQLType) prints them: a name, [T], or T!     *)
(* (never T!!).                                                            *)
(***************************************************************************)
Named(n) == <<n>>
ListOf(t) == <<"[">> \o t \o <<"]">>
NonNull(t) == t \o <<"!">>

RECURSIVE RefsOver(_, _)
RefsOver(names, lists) ==
    LET nullable == IF lists = 0
                    THEN {Named(n) : n \in names}
                    ELSE {ListOf(t) : t \in RefsOver(names, lists - 1)}
        here     == nullable \cup {NonNull(t) : t \in nullable}
    IN  IF lists = 0 THEN here ELSE here \cup RefsOver(names, lists - 1)

RefNames == {"Int", "String", "ID", "Date", "DateTime", "Float", "Boolean", "JSON",
             "User", "In1"}
TypeRefs == RefsOver(RefNames, MaxListDepth)

(***************************************************************************)
(* Schemas: type definitions, fields, and the type map.                    *)
(***************************************************************************)
Field(name, type, args) == [name |-> name, type |-> type, args |-> args]

ScalarType(n) == [kind |-> "Scalar", name |-> n, fields |-> <<>>]
EnumType(n) == [kind |-> "Enum", name |-> n, fields |-> <<>>]
InputObjectType(n, fields) == [kind |-> "InputObject", name |-> n, fields |-> fields]
ObjectType(n, fields) == [kind |-> "Object", name |-> n, fields |-> fields]

\* Python's None, where a type object is expected.
NoneType == [kind |-> "None", name |-> "", fields |-> <<>>]

\* self.schemas before build_graphql_schema has run.
NoSchema == [type_map |-> <<>>, query_type |-> NoneType, mutation_type |-> NoneType,
             subscription_type |-> NoneType]

\* self.schemas.type_map.get(name): a key is a name, so only a one-lexeme string
\* can be a key.
TypeMapGet(name) ==
    IF Len(name) = 1 /\ name[1] \in DOMAIN schemas.type_map
    THEN schemas.type_map[name[1]]
    ELSE NoneType

(***************************************************************************)
(* JSON values and ordered dicts.                                          *)
(***************************************************************************)
Scalar(lit) == [kind |-> "scalar", lit |-> lit, items |-> <<>>]
Entry(k, v) == [k |-> k, v |-> v]
ListVal(v) == [kind |-> "list", lit |-> "", items |-> <<Entry("", v)>>]
Dict(entries) == [kind |-> "dict", lit |-> "", items |-> entries]
EmptyDict == Dict(<<>>)

HasKey(d, k) == \E i \in 1..Len(d.items) : d.items[i].k = k

\* data_map[k] = v: an existing key keeps its position, a new key goes last.
DictSet(d, k, v) ==
    IF HasKey(d, k)
    THEN Dict([i \in 1..Len(d.items) |->
                  IF d.items[i].k = k THEN Entry(k, v) ELSE d.items[i]])
    ELSE Dict(Append(d.items, Entry(k, v)))

(***************************************************************************)
(* GraphqlDocsParse: the class attributes.                                 *)
(***************************************************************************)
scalar_default ==
    [Int      |-> "0",
     String   |-> "\"\"",
     ID       |-> "0",
     Date     |-> "\"2022-01-24\"",
     DateTime |-> "\"2022-01-24\"",
     Float    |-> "0.0",
     Boolean  |-> "false",
     JSON     |-> "\"JSON\""]

\* A faulty scan list: JSON is left out.
sqlmap_regx_no_json == {"String", "Date"}

sqlmap_regx == {"String", "Date", "JSON"}

(***************************************************************************)
(* get_variables.  A call returns [exc, val]: exc is "" and val the        *)
(* returned data_map, or exc names the exception that left the call.       *)
(***************************************************************************)
Returned(val) == [exc |-> "", val |-> val]
Raised(exc) == [exc |-> exc, val |-> EmptyDict]

\* lines 162-171: the value stored for a scalar type.
ScalarResult(type_obj, flag, sqlmap) ==
    LET res == IF sqlmap /\ type_obj.name \in sqlmap_regx
               THEN Scalar("\"*\"")
               ELSE Scalar(scalar_default[type_obj.name])
    IN  IF flag THEN ListVal(res) ELSE res

RECURSIVE get_variables_loop(_, _, _, _)
get_variables(items, data_map, sqlmap) == get_variables_loop(items, 1, data_map, sqlmap)

\* The for loop of lines 135-173, from its i-th iteration on.
get_variables_loop(items, i, data_map, sqlmap) ==
    IF i > Len(items) THEN Returned(data_map)
    ELSE
      LET k == items[i].name
          r == VarsTypeName(items[i].type)
          type_obj == TypeMapGet(r.v_type)
      IN  IF type_obj.kind = "InputObject" THEN
            LET variables == get_variables(type_obj.fields, data_map, sqlmap)
            IN  IF variables.exc # "" THEN variables
                ELSE get_variables_loop(items, i + 1,
                        Dict(<<Entry(k, IF r.flag THEN ListVal(variables.val)
                                                  ELSE variables.val)>>),
                        sqlmap)
          ELSE IF type_obj.kind = "None" THEN Raised("AttributeError")
          ELSE IF type_obj.name \in DOMAIN scalar_default THEN
            get_variables_loop(items, i + 1,
                DictSet(data_map, k, ScalarResult(type_obj, r.flag, sqlmap)), sqlmap)
          ELSE Raised("TypeError")

(***************************************************************************)
(* get_return_obj and find_fields.                                         *)
(***************************************************************************)
\* A faulty lookup: the type reference is looked up with its wrappers on.
get_return_obj_unstripped(field_obj) == TypeMapGet(field_obj.type)

get_return_obj(field_obj) == TypeMapGet(ReturnObjName(field_obj.type))

RECURSIVE find_fields_loop(_, _, _, _)
find_fields(field_obj, results, depth_) == find_fields_loop(field_obj, 1, results, depth_)

\* The for loop of lines 192-201, from its i-th iteration on.  A nested call
\* passes no results, so it starts from a fresh list.
find_fields_loop(field_obj, i, results, depth_) ==
    IF i > Len(field_obj.fields) THEN results
    ELSE
      LET k == field_obj.fields[i].name
          obj == get_return_obj(field_obj.fields[i])
      IN  IF obj.kind = "Object" /\ depth_ # 0 THEN
            find_fields_loop(field_obj, i + 1,
                Append(results, k \o "{") \o find_fields(obj, <<>>, depth_ - 1) \o <<"}">>,
                depth_)
          ELSE IF obj.kind = "Object" THEN
            find_fields_loop(field_obj, i + 1, results, depth_)
          ELSE
            find_fields_loop(field_obj, i + 1, Append(results, k), depth_)

(***************************************************************************)
(* query_template and get_query_str.                                       *)
(***************************************************************************)
\* A faulty template: the inner selection block is rendered even when args is empty.
query_template_always_block(is_type, operation_name, vars_str, resolve_str, args) ==
    <<is_type, operation_name>>
    \o (IF vars_str # <<>> THEN vars_str ELSE <<>>)
    \o <<"{", operation_name>>
    \o (IF resolve_str # <<>> THEN resolve_str ELSE <<>>)
    \o <<"{">> \o args \o <<"}">>
    \o <<"}">>

\* The Jinja template of lines 87-94; None and "" are both false in {% if %}.
query_template(is_type, operation_name, vars_str, resolve_str, args) ==
    <<is_type, operation_name>>
    \o (IF vars_str # <<>> THEN vars_str ELSE <<>>)
    \o <<"{", operation_name>>
    \o (IF resolve_str # <<>> THEN resolve_str ELSE <<>>)
    \o (IF args # <<>> THEN <<"{">> \o args \o <<"}">> ELSE <<>>)
    \o <<"}">>

\* lines 225-227: vars_str and resolve_str, each piece ending in the ", " separator.
RECURSIVE VarsStr(_, _)
VarsStr(args, i) ==
    IF i > Len(args) THEN <<>>
    ELSE <<"$" \o args[i].name \o ":">> \o args[i].type \o <<",">> \o VarsStr(args, i + 1)

RECURSIVE ResolveStr(_, _)
ResolveStr(args, i) ==
    IF i > Len(args) THEN <<>>
    ELSE <<args[i].name \o ":", "$" \o args[i].name, ",">> \o ResolveStr(args, i + 1)

get_query_str(is_type, query_name, field_obj, depth_) ==
    LET field_objs == get_return_obj(field_obj)
        args == IF field_objs.kind = "Object" THEN find_fields(field_objs, <<>>, depth_)
                ELSE <<>>
        vars_str == VarsStr(field_obj.args, 1)
        resolve_str == ResolveStr(field_obj.args, 1)
        \* [0:-2] drops the last separator; None is modelled as the empty string
        vars_content == IF vars_str # <<>>
                        THEN <<"(">> \o PySlice(vars_str, 0, -1) \o <<")">> ELSE <<>>
        resolve_content == IF vars_str # <<>>
                           THEN <<"(">> \o PySlice(resolve_str, 0, -1) \o <<")">> ELSE <<>>
    IN  query_template(is_type, query_name, vars_content, resolve_content, args)

(***************************************************************************)
(* The schemas the specifications draw from.                               *)
(***************************************************************************)
Range(q) == {q[i] : i \in 1..Len(q)}

\* The sequences of at most n distinct members of S: a Python dict of fields or
\* arguments has no repeated key.
RECURSIVE InjSeqs(_, _)
InjSeqs(S, n) ==
    IF n = 0 THEN {<<>>}
    ELSE LET shorter == InjSeqs(S, n - 1)
         IN  shorter \cup {Append(q, x) : <<q, x>> \in
                              {qx \in shorter \X S : qx[2] \notin Range(qx[1])}}

NoArgs == <<>>

\* Input objects In1 -> In2 (acyclic), InBad with a doubly wrapped list;
\* object types A <-> B refer to each other.
In1Fields == <<Field("x", Named("Int"), NoArgs),
               Field("j", Named("JSON"), NoArgs),
               Field("n", ListOf(Named("In2")), NoArgs)>>
In2Fields == <<Field("z", NonNull(Named("Boolean")), NoArgs),
               Field("f", Named("Float"), NoArgs),
               Field("i", NonNull(ListOf(NonNull(Named("ID")))), NoArgs),
               Field("t", Named("DateTime"), NoArgs)>>
InBadFields == <<Field("w", ListOf(ListOf(Named("Int"))), NoArgs)>>
AFields == <<Field("n", Named("Int"), NoArgs),
             Field("b", Named("B"), NoArgs),
             Field("u", ListOf(ListOf(Named("Int"))), NoArgs)>>
BFields == <<Field("c", Named("Int"), NoArgs),
             Field("a", NonNull(ListOf(NonNull(Named("A")))), NoArgs)>>

TypeMapWith(a_fields, b_fields, query, mutation, subscription) ==
    [Int      |-> ScalarType("Int"),
     String   |-> ScalarType("String"),
     ID       |-> ScalarType("ID"),
     Float    |-> ScalarType("Float"),
     Boolean  |-> ScalarType("Boolean"),
     Date     |-> ScalarType("Date"),
     DateTime |-> ScalarType("DateTime"),
     JSON     |-> ScalarType("JSON"),
     Color    |-> EnumType("Color"),
     In1      |-> InputObjectType("In1", In1Fields),
     In2      |-> InputObjectType("In2", In2Fields),
     InBad    |-> InputObjectType("InBad", InBadFields),
     A        |-> ObjectType("A", a_fields),
     B        |-> ObjectType("B", b_fields),
     Query    |-> ObjectType("Query", query),
     Mutation |-> ObjectType("Mutation", mutation),
     Subscription |-> ObjectType("Subscription", subscription)]

\* A schema; a root type without fields is absent (its *_type attribute is None).
SchemaWith(a_fields, b_fields, query, mutation, subscription) ==
    LET tm == TypeMapWith(a_fields, b_fields, query, mutation, subscription)
    IN  [type_map |-> [n \in {m \in DOMAIN tm :
                                 tm[m].kind # "Object" \/ tm[m].fields # <<>>} |-> tm[n]],
         query_type        |-> IF query = <<>> THEN NoneType ELSE tm.Query,
         mutation_type     |-> IF mutation = <<>> THEN NoneType ELSE tm.Mutation,
         subscription_type |-> IF subscription = <<>> THEN NoneType ELSE tm.Subscription]

\* Arguments a root field may declare.
ArgPool == {Field("a", Named("Int"), NoArgs),
            Field("s", NonNull(ListOf(NonNull(Named("String")))), NoArgs),
            Field("d", Named("Date"), NoArgs),
            Field("inp", Named("In1"), NoArgs),
            Field("lst", ListOf(NonNull(Named("In2"))), NoArgs),
            Field("e", Named("Color"), NoArgs),
            Field("q", ListOf(ListOf(Named("Int"))), NoArgs)}
ArgLists == InjSeqs(ArgPool, MaxArgs)

\* Fields an object type may declare.
AFieldPool == {Field("c", Named("Int"), NoArgs),
               Field("b", Named("B"), NoArgs),
               Field("a", Named("A"), NoArgs),
               Field("bs", NonNull(ListOf(NonNull(Named("B")))), NoArgs),
               Field("u", ListOf(ListOf(Named("B"))), NoArgs),
               Field("e", Named("Color"), NoArgs)}
BFieldPool == {Field("c", Named("Int"), NoArgs),
               Field("a", Named("A"), NoArgs),
               Field("b", ListOf(Named("B")), NoArgs)}
FieldLists(pool) == InjSeqs(pool, MaxFields) \ {<<>>}

(***************************************************************************)
(* Specifications of the pure functions: Init draws the arguments, the     *)
(* action applies the function.  The pipeline's variables stay idle.       *)
(***************************************************************************)
IdlePipeline ==
    /\ source = NoSchema /\ path_kind = "" /\ to_type = "" /\ depth = 0
    /\ is_sqlmap = FALSE /\ dir = "absent" /\ pc = "idle" /\ load_pos = 0
    /\ json_queue = <<>> /\ tasks = <<>> /\ files = {} /\ qsize = 0 /\ total = 0
    /\ err = ""

\* --- the resolver, both copies -------------------------------------------
NoResolve == [ro |-> <<>>, ro_done |-> FALSE,
              gv |-> [v_type |-> <<>>, flag |-> FALSE], gv_done |-> FALSE]

InitResolve ==
    /\ IdlePipeline
    /\ schemas = NoSchema
    /\ phase = "called"
    /\ call \in {[type |-> t] : t \in TypeRefs}
    /\ result = NoResolve

ResolveReturnObj ==
    /\ phase = "called" /\ ~result.ro_done
    /\ result' = [result EXCEPT !.ro = ReturnObjName(call.type), !.ro_done = TRUE]
    /\ phase' = IF result.gv_done THEN "returned" ELSE "called"
    /\ UNCHANGED <<pipeline_vars, call>>

ResolveGetVariables ==
    /\ phase = "called" /\ ~result.gv_done
    /\ result' = [result EXCEPT !.gv = VarsTypeName(call.type), !.gv_done = TRUE]
    /\ phase' = IF result.ro_done THEN "returned" ELSE "called"
    /\ UNCHANGED <<pipeline_vars, call>>

NextResolve == ResolveReturnObj \/ ResolveGetVariables
SpecResolve == InitResolve /\ [][NextResolve]_vars

\* --- get_variables --------------------------------------------------------
InitVars ==
    /\ IdlePipeline
    /\ schemas = SchemaWith(AFields, BFields, <<>>, <<>>, <<>>)
    /\ phase = "called"
    /\ call \in {[items |-> a, is_sqlmap |-> b] : a \in ArgLists, b \in BOOLEAN}
    /\ result = Returned(EmptyDict)

CallGetVariables ==
    /\ phase = "called"
    /\ result' = get_variables(call.items, EmptyDict, call.is_sqlmap)
    /\ phase' = "returned"
    /\ UNCHANGED <<pipeline_vars, call>>

NextVars == CallGetVariables
SpecVars == InitVars /\ [][NextVars]_vars

\* --- find_fields ----------------------------------------------------------
InitFields ==
    /\ IdlePipeline
    /\ schemas \in {SchemaWith(fa, fb, <<>>, <<>>, <<>>) :
                       fa \in FieldLists(AFieldPool), fb \in FieldLists(BFieldPool)}
    /\ phase = "called"
    /\ call \in {[type |-> t, depth |-> d] : t \in {"A", "B"}, d \in 0..MaxDepth}
    /\ result = <<>>

CallFindFields ==
    /\ phase = "called"
    /\ result' = find_fields(schemas.type_map[call.type], <<>>, call.depth)
    /\ phase' = "returned"
    /\ UNCHANGED <<pipeline_vars, call>>

NextFields == CallFindFields
SpecFields == InitFields /\ [][NextFields]_vars

(***************************************************************************)
(* What the specification says of the resolver, stated on its own terms.   *)
(***************************************************************************)
Positions(s, c) == {i \in 1..Len(s) : s[i] = c}
FirstPos(s, c) == CHOOSE i \in Positions(s, c) : \A j \in Positions(s, c) : i <= j

\* The working string: what lies between the first "[" and the first "]".
SpecWorking(s) ==
    IF Positions(s, "[") = {} THEN s
    ELSE [i \in 1..(FirstPos(s, "]") - FirstPos(s, "[") - 1) |-> s[FirstPos(s, "[") + i]]

SpecBase(s) ==
    LET w == SpecWorking(s)
    IN  IF w # <<>> /\ w[Len(w)] = "!" THEN [i \in 1..(Len(w) - 1) |-> w[i]] ELSE w

SpecIsList(s) == Positions(s, "[") # {}

\* C3: for every type-reference string, isList is true exactly when the string
\* contains "[", the base name is what lies between the first "[" and the first
\* "]" (the whole string when there is no "[") less one trailing "!", both copies
\* of the logic return that base name, and the examples of the specification
\* come out as stated; only one list level is stripped.
C3Resolver ==
    phase = "returned" =>
        /\ result.gv.flag = SpecIsList(call.type)
        /\ result.gv.v_type = SpecBase(call.type)
        /\ result.ro = SpecBase(call.type)
        /\ result.ro = result.gv.v_type
        /\ call.type = <<"[", "User", "!", "]", "!">>
              => result.ro = <<"User">> /\ result.gv.flag
        /\ call.type = <<"String", "!">>
              => result.ro = <<"String">> /\ ~result.gv.flag
        /\ call.type = <<"Boolean">>
              => result.ro = <<"Boolean">> /\ ~result.gv.flag
        /\ call.type = <<"[", "[", "Int", "]", "]">>
              => result.ro = <<"[", "Int">> /\ result.gv.flag

C3Witness ==
    /\ phase = "returned"
    /\ call.type = <<"[", "User", "!", "]", "!">>
    /\ result.ro = <<"User">>
    /\ result.gv = [v_type |-> <<"User">>, flag |-> TRUE]

(***************************************************************************)
(* What the specification says of the variables tree.                      *)
(***************************************************************************)
SpecType(type) == TypeMapGet(SpecBase(type))

\* The tree of section 4.2: one key per field, in order; an input object maps
\* to the tree of its own fields; a list-typed field wraps its value.
RECURSIVE SpecTree(_, _)
SpecTree(items, sqlmap) ==
    Dict([i \in 1..Len(items) |->
            LET t == SpecType(items[i].type)
                v == IF t.kind = "InputObject" THEN SpecTree(t.fields, sqlmap)
                     ELSE Scalar("")
            IN  Entry(items[i].name, IF SpecIsList(items[i].type) THEN ListVal(v) ELSE v)])

\* A value with its scalar literals blanked: the keys and the nesting only.
RECURSIVE Shape(_)
Shape(v) ==
    IF v.kind = "scalar" THEN Scalar("")
    ELSE [v EXCEPT !.items = [i \in 1..Len(v.items) |->
                                 Entry(v.items[i].k, Shape(v.items[i].v))]]

\* C1: the tree get_variables returns for a root field's arguments has exactly
\* one top-level key per declared argument, in declaration order; an
\* input-object argument maps to a nested tree of exactly that input object's
\* own fields (in a one-element list when list-typed); no sibling's key appears
\* inside a nested tree or is lost from the top level.
C1TreeShape ==
    (phase = "returned" /\ result.exc = "")
        => Shape(result.val) = SpecTree(call.items, call.is_sqlmap)

\* The scalar declarations get_variables visits: the arguments and, through
\* input objects, their fields.
RECURSIVE ScalarDecls(_)
ScalarDecls(items) ==
    UNION {LET t == SpecType(items[i].type)
           IN  IF t.kind = "InputObject" THEN ScalarDecls(t.fields)
               ELSE IF t.kind = "Scalar" THEN {items[i]}
               ELSE {}
           : i \in 1..Len(items)}

\* Every (key, value) entry of a tree, at any depth; list elements have key "".
RECURSIVE Bindings(_)
Bindings(v) ==
    {<<v.items[i].k, v.items[i].v>> : i \in 1..Len(v.items)}
    \cup UNION {Bindings(v.items[i].v) : i \in 1..Len(v.items)}

\* The table of section 4.2, as JSON literals.
SpecDefault(name, sqlmap) ==
    IF sqlmap /\ name \in {"String", "Date", "JSON"} THEN "\"*\""
    ELSE CASE name = "Int" -> "0"
           [] name = "String" -> "\"\""
           [] name = "ID" -> "0"
           [] name = "Date" -> "\"2022-01-24\""
           [] name = "DateTime" -> "\"2022-01-24\""
           [] name = "Float" -> "0.0"
           [] name = "Boolean" -> "false"
           [] name = "JSON" -> "\"JSON\""

SpecScalar(type, sqlmap) ==
    LET v == Scalar(SpecDefault(SpecBase(type)[1], sqlmap))
    IN  IF SpecIsList(type) THEN ListVal(v) ELSE v

RECURSIVE Flatten(_)
Flatten(qq) == IF qq = <<>> THEN <<>> ELSE Head(qq) \o Flatten(Tail(qq))

RECURSIVE SpecSelect(_, _)
SpecSelect(type, budget) ==
    Flatten([i \in 1..Len(type.fields) |->
        LET t == SpecType(type.fields[i].type)
            name == type.fields[i].name
        IN  IF t.kind # "Object" THEN <<name>>
            ELSE IF budget = 0 THEN <<>>
            ELSE <<name \o "{">> \o SpecSelect(t, budget - 1) \o <<"}">>])

FieldNames == {f.name : f \in AFieldPool \cup BFieldPool}
IsOpen(tok) == tok \in {n \o "{" : n \in FieldNames}

\* Opening tokens less closing tokens among the first n tokens.
Nesting(toks, n) ==
    Cardinality({i \in 1..n : IsOpen(toks[i])}) - Cardinality({i \in 1..n : toks[i] = "}"})

\* C4: find_fields returns, in declaration order, the bare name of each field
\* whose type is not an Object, nothing for an Object field at budget 0, and
\* "name{", the selection at budget - 1, "}" otherwise; braces are balanced and
\* never nest deeper than the budget; with A { b: B }, B { c: Int } the
\* selection of A is [] at budget 0 and ["b{", "c", "}"] at budget 1.  The
\* object types drawn refer to each other cyclically.
C4Selection ==
    phase = "returned" =>
        /\ result = SpecSelect(schemas.type_map[call.type], call.depth)
        /\ Nesting(result, Len(result)) = 0
        /\ \A n \in 0..Len(result) :
              Nesting(result, n) >= 0 /\ Nesting(result, n) <= call.depth
        /\ ( /\ schemas.type_map.A.fields = <<Field("b", Named("B"), NoArgs)>>
             /\ schemas.type_map.B.fields = <<Field("c", Named("Int"), NoArgs)>>
             /\ call.type = "A" )
           => /\ call.depth = 0 => result = <<>>
              /\ call.depth = 1 => result = <<"b{", "c", "}">>

C4Witness ==
    /\ phase = "returned"
    /\ schemas.type_map.A.fields = <<Field("b", Named("B"), NoArgs)>>
    /\ schemas.type_map.B.fields = <<Field("c", Named("Int"), NoArgs),
                                     Field("a", Named("A"), NoArgs)>>
    /\ call = [type |-> "A", depth |-> 2]
    /\ result = <<"b{", "c", "a{", "}", "}">>

(***************************************************************************)
(* make_action: the whole run, from the source to the files.               *)
(***************************************************************************)
\* Root fields a schema may declare.
HelloField == Field("hello", Named("String"), NoArgs)
UserField == Field("user", NonNull(Named("A")),
                   <<Field("id", NonNull(Named("ID")), NoArgs),
                     Field("name", Named("String"), NoArgs)>>)
BadField == Field("bad", Named("Int"),
                  <<Field("q", ListOf(ListOf(Named("Int"))), NoArgs)>>)
NestedField == Field("nested", Named("Int"), <<Field("inp", Named("InBad"), NoArgs)>>)
OutField == Field("out", ListOf(ListOf(Named("Int"))), NoArgs)
TickField == Field("tick", Named("Int"), NoArgs)

QueryPool == {HelloField, UserField, BadField, NestedField, OutField}
MutationPool == {HelloField, UserField, BadField}
SubscriptionPool == {TickField}

Sources ==
    {SchemaWith(AFields, BFields, q, m, s) :
        q \in InjSeqs(QueryPool, MaxRootFields),
        m \in InjSeqs(MutationPool, 1),
        s \in InjSeqs(SubscriptionPool, 1)}

Init ==
    /\ schemas = NoSchema
    /\ source \in Sources
    /\ path_kind \in {"url", "json", "graphql", "other"}
    /\ to_type \in {"json", "gql", "sqlmap", "burp"}
    /\ depth \in {0, 1}      \* make_action's default is 1
    /\ is_sqlmap = FALSE
    /\ dir \in {"absent", "present"}
    /\ pc = "make_action"
    /\ load_pos = 0
    /\ json_queue = <<>>
    /\ tasks = <<>>
    /\ files = {}
    /\ qsize = 0
    /\ total = 0
    /\ err = ""
    /\ phase = "idle" /\ call = <<>> /\ result = <<>>

pure_vars == <<phase, call, result>>

\* make_action, lines 441-457: the parser is chosen from the path, or ValueError.
MakeAction ==
    /\ pc = "make_action"
    /\ IF path_kind = "url" THEN
          /\ pc' = "start"
          /\ is_sqlmap' = (to_type = "sqlmap")
          /\ err' = err
       ELSE IF path_kind \in {"json", "graphql"} THEN
          /\ pc' = "start"
          /\ UNCHANGED <<is_sqlmap, err>>
       ELSE
          /\ pc' = "raised"
          /\ err' = "ValueError"
          /\ UNCHANGED is_sqlmap
    /\ UNCHANGED <<schemas, source, path_kind, to_type, depth, dir, load_pos, json_queue,
                   tasks, files, qsize, total, pure_vars>>

\* start, lines 66-67: the schema is built when there is none.
Start ==
    /\ pc = "start"
    /\ schemas' = IF schemas = NoSchema THEN source ELSE schemas
    /\ pc' = "load_query"
    /\ UNCHANGED <<source, path_kind, to_type, depth, is_sqlmap, dir, load_pos, json_queue,
                   tasks, files, qsize, total, err, pure_vars>>

\* load_query, lines 246-251: the (types_name, field) pairs in enumeration order;
\* a root type that is None has no "fields" attribute and is passed over.
RootFieldsOf(types_name, gql_type) ==
    IF gql_type.kind = "None" THEN <<>>
    ELSE [i \in 1..Len(gql_type.fields) |->
             [types_name |-> types_name, field |-> gql_type.fields[i]]]

RootFields ==
    RootFieldsOf("query", schemas.query_type)
    \o RootFieldsOf("mutation", schemas.mutation_type)
    \o RootFieldsOf("subscription", schemas.subscription_type)

\* A faulty record: it is named after the operation kind, not the field.
LoadQueryResultNamedByKind(types_name, query_name, query_return) ==
    [query |-> get_query_str(types_name, query_name, query_return, depth),
     variables |-> get_variables(query_return.args, EmptyDict, is_sqlmap),
     operationName |-> types_name]

\* load_query, lines 252-260: the record of one root field; variables is the
\* outcome of the get_variables call.
LoadQueryResult(types_name, query_name, query_return) ==
    [query |-> get_query_str(types_name, query_name, query_return, depth),
     variables |-> get_variables(query_return.args, EmptyDict, is_sqlmap),
     operationName |-> query_name]

\* A faulty enumeration: an exception of the synthesis is swallowed and the
\* record is queued with empty variables.
LoadQueryKeepsGoing ==
    /\ pc = "load_query"
    /\ load_pos < Len(RootFields)
    /\ LET rf == RootFields[load_pos + 1]
           res == LoadQueryResult(rf.types_name, rf.field.name, rf.field)
       IN  json_queue' = Append(json_queue, [res EXCEPT !.variables = res.variables.val])
    /\ load_pos' = load_pos + 1
    /\ UNCHANGED <<schemas, source, path_kind, to_type, depth, is_sqlmap, dir, pc, tasks,
                   files, qsize, total, err, pure_vars>>

\* load_query, lines 251-261: one root field; an exception of get_variables
\* leaves load_query, start and make_action.
LoadQuery ==
    /\ pc = "load_query"
    /\ load_pos < Len(RootFields)
    /\ LET types_name == RootFields[load_pos + 1].types_name
           query_return == RootFields[load_pos + 1].field
           query_name == query_return.name
           res == LoadQueryResult(types_name, query_name, query_return)
       IN  IF res.variables.exc # "" THEN
              /\ pc' = "raised"
              /\ err' = res.variables.exc
              /\ UNCHANGED <<json_queue, load_pos>>
           ELSE
              /\ json_queue' = Append(json_queue,
                                      [res EXCEPT !.variables = res.variables.val])
              /\ load_pos' = load_pos + 1
              /\ UNCHANGED <<pc, err>>
    /\ UNCHANGED <<schemas, source, path_kind, to_type, depth, is_sqlmap, dir, tasks, files,
                   qsize, total, pure_vars>>

\* A faulty make_action: the writer, and with it the directory, is made before
\* to_type is looked at.
MakeFileInitEager ==
    /\ pc = "load_query"
    /\ load_pos = Len(RootFields)
    /\ dir' = IF dir = "absent" THEN "created" ELSE dir
    /\ IF is_sqlmap \/ to_type \in {"json", "gql"} THEN
          /\ total' = 0
          /\ qsize' = Len(json_queue)
          /\ pc' = "async_write"
          /\ err' = err
       ELSE
          /\ pc' = "raised"
          /\ err' = "TypeError"
          /\ UNCHANGED <<total, qsize>>
    /\ UNCHANGED <<schemas, source, path_kind, to_type, depth, is_sqlmap, load_pos,
                   json_queue, tasks, files, pure_vars>>

\* make_action, lines 449-450 and 461-466, with MakeFile.__init__ (lines 366-369)
\* and the head of async_write (lines 378-379): the writer is chosen from
\* to_type, or TypeError; the directory is made when it is not there.
MakeFileInit ==
    /\ pc = "load_query"
    /\ load_pos = Len(RootFields)
    /\ IF is_sqlmap \/ to_type \in {"json", "gql"} THEN
          /\ dir' = IF dir = "absent" THEN "created" ELSE dir
          /\ total' = 0
          /\ qsize' = Len(json_queue)
          /\ pc' = "async_write"
          /\ err' = err
       ELSE
          /\ pc' = "raised"
          /\ err' = "TypeError"
          /\ UNCHANGED <<dir, total, qsize>>
    /\ UNCHANGED <<schemas, source, path_kind, to_type, depth, is_sqlmap, load_pos,
                   json_queue, tasks, files, pure_vars>>

\* A faulty loop: the record is read from the queue but not removed.
SubmitPeek ==
    /\ pc = "async_write"
    /\ total < qsize
    /\ json_queue # <<>>
    /\ tasks' = Append(tasks, [info |-> Head(json_queue), state |-> "pending"])
    /\ total' = total + 1
    /\ UNCHANGED <<schemas, source, path_kind, to_type, depth, is_sqlmap, dir, pc, load_pos,
                   json_queue, files, qsize, err, pure_vars>>

\* async_write, lines 382-384: one record is taken from the queue and submitted.
Submit ==
    /\ pc = "async_write"
    /\ total < qsize
    /\ json_queue # <<>>
    /\ tasks' = Append(tasks, [info |-> Head(json_queue), state |-> "pending"])
    /\ json_queue' = Tail(json_queue)
    /\ total' = total + 1
    /\ UNCHANGED <<schemas, source, path_kind, to_type, depth, is_sqlmap, dir, pc, load_pos,
                   files, qsize, err, pure_vars>>

\* make_file, lines 391, 398, 420: the path a record is written to.
Suffix == IF is_sqlmap THEN ".txt" ELSE IF to_type = "json" THEN ".json" ELSE ".gql"
FilePath(info) == "dir/" \o info.operationName \o Suffix

\* make_file, lines 393, 400, 422: what is written.
FileContent(info) ==
    IF is_sqlmap THEN [template |-> TRUE, query |-> info.query, json |-> TRUE]
    ELSE IF to_type = "json" THEN [template |-> FALSE, query |-> info.query, json |-> TRUE]
    ELSE [template |-> FALSE, query |-> info.query, json |-> FALSE]

\* A worker runs make_file for a submitted record: open(file_path, "w") and the
\* write replace whatever the path held.
WorkerWrites(i) ==
    /\ tasks[i].state = "pending"
    /\ tasks' = [tasks EXCEPT ![i].state = "done"]
    /\ files' = {f \in files : f.path # FilePath(tasks[i].info)}
                \cup {[path |-> FilePath(tasks[i].info),
                       content |-> FileContent(tasks[i].info)]}
    /\ UNCHANGED <<schemas, source, path_kind, to_type, depth, is_sqlmap, dir, pc, load_pos,
                   json_queue, qsize, total, err, pure_vars>>

\* make_file raises in the worker (open or write fails): the executor keeps the
\* exception in the task's future, which line 383 does not keep.
WorkerRaises(i) ==
    /\ tasks[i].state = "pending"
    /\ tasks' = [tasks EXCEPT ![i].state = "failed"]
    /\ UNCHANGED <<schemas, source, path_kind, to_type, depth, is_sqlmap, dir, pc, load_pos,
                   json_queue, files, qsize, total, err, pure_vars>>

\* async_write, lines 380 and 385: leaving the with block waits for every
\* submitted task, then total is returned.
AsyncWriteReturn ==
    /\ pc = "async_write"
    /\ total = qsize
    /\ \A i \in 1..Len(tasks) : tasks[i].state # "pending"
    /\ pc' = "returned"
    /\ UNCHANGED <<schemas, source, path_kind, to_type, depth, is_sqlmap, dir, load_pos,
                   json_queue, tasks, files, qsize, total, err, pure_vars>>

Next ==
    \/ MakeAction
    \/ Start
    \/ LoadQuery
    \/ MakeFileInit
    \/ Submit
    \/ \E i \in 1..Len(tasks) : WorkerWrites(i)
    \/ \E i \in 1..Len(tasks) : WorkerRaises(i)
    \/ AsyncWriteReturn

Spec == Init /\ [][Next]_vars

(***************************************************************************)
(* Claims about the run.                                                   *)
(***************************************************************************)
HelloSchema == SchemaWith(AFields, BFields, <<HelloField>>, <<>>, <<>>)

HelloQueued ==
    /\ schemas = HelloSchema
    /\ pc = "load_query"
    /\ Len(json_queue) = 1

\* C5, as claimed: for a schema with the single Query field hello: String
\* without arguments, the document has no parenthesized clause and selects
\* ["hello"]: query hello{ hello{ hello } }.
C5HelloSelectsHello ==
    HelloQueued =>
        /\ "(" \notin Range(json_queue[1].query)
        /\ json_queue[1].query = <<"query", "hello", "{", "hello", "{", "hello", "}", "}">>

\* C5, amended: for that schema the document has no parenthesized clause and
\* an empty selection, so the inner block is left out: query hello{ hello }.
C5HelloDocument ==
    HelloQueued =>
        /\ "(" \notin Range(json_queue[1].query)
        /\ json_queue[1].query = <<"query", "hello", "{", "hello", "}">>
        /\ json_queue[1].variables = EmptyDict
        /\ json_queue[1].operationName = "hello"

C5Witness == HelloQueued /\ load_pos = 1 /\ json_queue[1].operationName = "hello"

\* A type reference among these arguments, or among the fields of an input
\* object reached from them, names a type that is not in the type map.
RECURSIVE UnresolvedInput(_)
UnresolvedInput(items) ==
    \E i \in 1..Len(items) :
        LET t == SpecType(items[i].type)
        IN  t.kind = "None" \/ (t.kind = "InputObject" /\ UnresolvedInput(t.fields))

\* The field selector, at this budget, visits a field of this type whose type
\* reference names a type that is not in the type map.
RECURSIVE UnresolvedSelected(_, _)
UnresolvedSelected(type, budget) ==
    \E i \in 1..Len(type.fields) :
        LET t == SpecType(type.fields[i].type)
        IN  \/ t.kind = "None"
            \/ t.kind = "Object" /\ budget # 0 /\ UnresolvedSelected(t, budget - 1)

UnresolvedOutput(field) ==
    LET t == SpecType(field.type)
    IN  t.kind = "None" \/ (t.kind = "Object" /\ UnresolvedSelected(t, depth))

\* The records queued so far, dequeued or not.
Queued == Len(tasks) + Len(json_queue)

NeverReaches(i) ==
    /\ Queued < i
    /\ load_pos < i
    /\ pc \notin {"async_write", "returned"}

C7FailsBeforeOutput ==
    pc = "raised" =>
        /\ err \in {"ValueError", "TypeError", "AttributeError"}
        /\ tasks = <<>> /\ total = 0
        /\ files = {}
        /\ dir # "created"

C7Witness ==
    /\ pc = "raised" /\ err = "TypeError"
    /\ path_kind = "json" /\ to_type = "sqlmap"
    /\ dir = "absent"
    /\ Len(json_queue) = 2

\* C8: when make_file raises in a worker, async_write does not return a normal
\* count: the error leaves async_write.
C8WorkerErrorIsFatal ==
    pc = "returned" => \A i \in 1..Len(tasks) : tasks[i].state # "failed"

\* Every record of the run, dequeued ones first.
Records == [i \in 1..Len(tasks) |-> tasks[i].info] \o json_queue

\* C9, as claimed: no two tasks of a run write the same path: the
\* operationName of the records, over query, mutation and subscription
\* together, give pairwise distinct files.
C9DistinctPaths ==
    \A i, j \in 1..Len(tasks) :
        i # j => FilePath(tasks[i].info) # FilePath(tasks[j].info)

\* C9, amended: no two tasks of a run whose records come from the same root
\* type write the same path: operationName is unique within a root type, and
\* two records share a path only when they come from different root types.
C9DistinctPathsPerRootType ==
    \A i, j \in 1..Len(Records) :
        (i # j /\ FilePath(Records[i]) = FilePath(Records[j]))
            => Records[i].query[1] # Records[j].query[1]

C9Witness ==
    /\ pc = "returned"
    /\ Len(tasks) = 3
    /\ FilePath(tasks[1].info) # FilePath(tasks[2].info)
    /\ FilePath(tasks[1].info) = FilePath(tasks[3].info)
    /\ \A i \in 1..3 : tasks[i].state = "done"
    /\ Cardinality(files) = 2

\* The names of the root fields of the source's schema, in enumeration order.
FieldNamesOf(type) == [i \in 1..Len(type.fields) |-> type.fields[i].name]
SourceRootNames ==
    FieldNamesOf(source.query_type) \o FieldNamesOf(source.mutation_type)
    \o FieldNamesOf(source.subscription_type)

\* C10: after start() and async_write(), make_file has been invoked once per
\* root field of the root types present: load_query queued one record per root
\* field, named after it, before any was dequeued; every record is dequeued
\* and handed to one task once; the queue is empty when async_write returns and
\* the total is the number of root fields.
C10OneTaskPerRootField ==
    /\ Len(tasks) = total
    /\ pc \in {"make_action", "start", "load_query", "raised"} => tasks = <<>>
    /\ pc \in {"async_write", "returned"} =>
          /\ [i \in 1..Len(Records) |-> Records[i].operationName] = SourceRootNames
          /\ qsize = Len(SourceRootNames)
    /\ pc = "returned" =>
          /\ json_queue = <<>>
          /\ total = Len(SourceRootNames)
          /\ \A i \in 1..Len(tasks) : tasks[i].state \in {"done", "failed"}

C10Witness ==
    /\ pc = "returned"
    /\ source.mutation_type = NoneType
    /\ source.subscription_type # NoneType
    /\ total = 3 /\ json_queue = <<>>
    /\ [i \in 1..3 |-> tasks[i].info.operationName] = <<"hello", "user", "tick">>

====
